---- MODULE Spec2Model ----
(***************************************************************************)
(* A model of the rescaled-PageRank pipeline:                              *)
(*   PageRankDataProcessor (edge_list_loader/data_processor.py),           *)
(*   PageRank              (graph_metrics/run_pagerank.py),                *)
(*   TimeNormalise         (graph_metrics/time_normalise.py),              *)
(*   main                  (pagerank_pipeline.py).                         *)
(*                                                                         *)
(* A polars frame is a record [cols, rows]: cols is the schema (a set of   *)
(* column names), rows a sequence of records whose domain is cols.         *)
(* A raw date string is the sequence of its '-' separated fields, year     *)
(* (4 chars), month (2 chars), day (2 chars); a field that is not a number *)
(* is Bad.  A pl.Date is the integer YYYYMMDD; a polars null is Null.      *)
(* A raw publication id "pub.<n>" is the pair <<"pub", n>>.                *)
(***************************************************************************)
EXTENDS Integers, Sequences, FiniteSets, TLC

VARIABLES
    caller,         \* who drives the run: "main" (pagerank_pipeline.main as written) or "stages"
    pc,             \* position in the run
    s3_info,        \* publication info as stored (rows: id, publication_date)
    s3_edges,       \* edge list as stored (rows: pub_id, references)
    date_cutoff,    \* handler.date_cutoff: a date or Null
    info_df,        \* handler.info_df
    df,             \* handler.df, then main's df
    local_files,    \* the parquet files process_data wrote locally, when asked to
    g,              \* the graph-tool graph of process_pagerank, or NoGraph
    solver_calls,   \* number of calls of graph_tool's pagerank
    time_normalise, \* args.time_normalise (the argparse default until main reads it)
    aggregation,    \* args.aggregation, then TimeNormalise.aggregation
    filter_out_degree, \* args.filter_out_degree, then TimeNormalise.filter_out_degree
    window_size,    \* window_size of process_normalisation, NoWindow until computed
    norm_input,     \* the frame TimeNormalise was built with
    saved,          \* the tables written by save_to_s3: a set of [path, table]
    error,          \* the exception that ended the run, or "none"
    path_list,      \* AsyncS3DataLoader.path_list
    chunks,         \* AsyncS3DataLoader.chunks
    missing,        \* the paths of path_list whose object does not exist (NoSuchKey)
    chunk_start,    \* the loop variable i of async_chunk_run
    tasks,          \* per position of path_list: the read_from_s3 task and its result
    gets,           \* per position of path_list: the number of get_object calls
    all_dataframes, \* all_dataframes of async_chunk_run
    loaded          \* what async_chunk_run returned

procvars == <<s3_info, s3_edges, date_cutoff, info_df, local_files>>
kept == <<norm_input>>
rankvars == <<g, solver_calls>>
vars == <<caller, pc, s3_info, s3_edges, date_cutoff, info_df, df, local_files,
          g, solver_calls, time_normalise, aggregation, filter_out_degree,
          window_size, norm_input, saved, error,
          path_list, chunks, missing, chunk_start, tasks, gets, all_dataframes, loaded>>
loader == <<path_list, chunks, missing, chunk_start, tasks, gets, all_dataframes, loaded>>

----------------------------------------------------------------------------
(* Bounds of the model *)

\* rows of the stored publication info
MaxInfoRows == 3
\* rows of the stored edge list
MaxEdgeRows == 2
\* rows of a frame handed to TimeNormalise on its own
MaxNormRows == 3
\* rows of the long frames handed to TimeNormalise, and their rows per month
LongLen == 10
LongPerMonth == 4
\* the longest path_list and the largest chunks of the loader
MaxPaths == 5
MaxChunks == 3

----------------------------------------------------------------------------
(* Values *)

Null == 0
Bad == -1

\* the publication ids pub.1, pub.2
Ids == {1, 2}
RawId(n) == <<"pub", n>>

\* The partial date strings of the stored data: "2019", "2020-01",
\* "2020-01-15" and a string whose year is not a number ("n.a.").
RawDates == { <<2019>>, <<2020, 1>>, <<2020, 1, 15>>, <<Bad>> }

\* The values random.randint is taken to return in fill_date.
RandMonths == {1, 12}
RandDays == {1, 28}

\* --date-cutoff: not given, or "2020-01-15"
Cutoffs == {Null, 20200115}

----------------------------------------------------------------------------
(* Dates *)

MkDate(y, m, d) == y * 10000 + m * 100 + d
YearOf(date) == date \div 10000
MonthOf(date) == (date \div 100) % 100
DayOf(date) == date % 100

IsLeap(y) == (y % 4 = 0 /\ y % 100 # 0) \/ y % 400 = 0

DaysIn(y, m) ==
    IF m = 2 THEN (IF IsLeap(y) THEN 29 ELSE 28)
    ELSE IF m \in {4, 6, 9, 11} THEN 30 ELSE 31

\* .str.strptime(pl.Date, '%Y-%m-%d', strict=False) of "y-m-d": null unless
\* the three fields are numbers that make a calendar date.
Strptime(y, m, d) ==
    IF y = Bad \/ m = Bad \/ d = Bad THEN Null
    ELSE IF y < 1 \/ m < 1 \/ m > 12 \/ d < 1 \/ d > DaysIn(y, m) THEN Null
    ELSE MkDate(y, m, d)

\* str.len_chars() of a raw date string of fixed-width fields
LenChars(raw) == 4 + 3 * (Len(raw) - 1)

\* a comparison of polars: null when an operand is null; filter keeps true only
LtKeeps(a, b) == a # Null /\ b # Null /\ a < b

----------------------------------------------------------------------------
(* Frames *)

RECURSIVE SelectSeq2(_, _, _)
SelectSeq2(s, P(_), acc) ==
    IF s = << >> THEN acc
    ELSE SelectSeq2(Tail(s), P, IF P(Head(s)) THEN Append(acc, Head(s)) ELSE acc)

Range(s) == { s[i] : i \in DOMAIN s }

\* DataFrame.filter
FilterRows(t, P(_)) == [cols |-> t.cols, rows |-> SelectSeq2(t.rows, P, << >>)]

\* DataFrame.with_columns(expr.alias(name))
WithColumn(t, name, F(_)) ==
    [cols |-> t.cols \cup {name},
     rows |-> [i \in DOMAIN t.rows |->
                 [c \in t.cols \cup {name} |->
                     IF c = name THEN F(t.rows[i]) ELSE t.rows[i][c]]]]

\* DataFrame.select of a set of existing columns
SelectCols(t, cs) ==
    [cols |-> cs, rows |-> [i \in DOMAIN t.rows |-> [c \in cs |-> t.rows[i][c]]]]

\* DataFrame.rename of one column
RenameCol(t, old, new) ==
    LET cs == (t.cols \ {old}) \cup {new}
    IN [cols |-> cs,
        rows |-> [i \in DOMAIN t.rows |->
                    [c \in cs |-> IF c = new THEN t.rows[i][old] ELSE t.rows[i][c]]]]

RECURSIVE Flatten(_)
Flatten(ss) == IF ss = << >> THEN << >> ELSE Head(ss) \o Flatten(Tail(ss))

\* left.join(right, left_on=lk, right_on=rk, how='inner'): for every left row,
\* one row per right row with the same key; the right key column is dropped.
InnerJoin(left, lk, right, rk) ==
    LET rcols == right.cols \ {rk}
        cs == left.cols \cup rcols
        Glue(l, r) == [c \in cs |-> IF c \in left.cols THEN l[c] ELSE r[c]]
        Matches(l) ==
            LET hit == SelectSeq2(right.rows, LAMBDA r : r[rk] = l[lk], << >>)
            IN [j \in DOMAIN hit |-> Glue(l, hit[j])]
    IN [cols |-> cs,
        rows |-> Flatten([i \in DOMAIN left.rows |-> Matches(left.rows[i])])]

----------------------------------------------------------------------------
(* PageRankDataProcessor *)

\* pub_info_polars_args / graph_data_polars_args: the columns kept of the scans
PubInfoPolarsArgs(t) == SelectCols(t, {"id", "publication_date"})
GraphDataPolarsArgs(t) == SelectCols(t, {"pub_id", "references"})

\* the expression of prepare_min_date on one raw date string
MinDateOf(raw) ==
    LET year == raw[1]
        month == IF LenChars(raw) >= 7 THEN raw[2] ELSE 1
        day == IF LenChars(raw) >= 10 THEN raw[3] ELSE 1
    IN Strptime(year, month, day)

PrepareMinDate(info) ==
    WithColumn(info, "_min_date", LAMBDA r : MinDateOf(r["publication_date"]))

\* the column filter_date_cutoff compares with the cutoff
CutoffDateCol(info) ==
    IF "_min_date" \in info.cols THEN "_min_date" ELSE "publication_date"

\* a cutoff filter that also keeps the dates equal to the cutoff
FilterDateCutoffNonStrict(info, cutoff) ==
    FilterRows(info, LAMBDA r : r[CutoffDateCol(info)] # Null
                                /\ r[CutoffDateCol(info)] <= cutoff)

FilterDateCutoff(info, cutoff) ==
    FilterRows(info, LAMBDA r : LtKeeps(r[CutoffDateCol(info)], cutoff))

\* a pruning test that also keeps an edge whose two ends share one min date
EdgeIsCausalNonStrict(row) ==
    /\ row["cited_min_date"] # Null /\ row["citing_min_date"] # Null
    /\ row["cited_min_date"] <= row["citing_min_date"]

\* a pruning test in which an unresolved date sorts before every date
EdgeIsCausalNullFirst(row) ==
    \/ row["cited_min_date"] = Null
    \/ LtKeeps(row["cited_min_date"], row["citing_min_date"])

\* the filter of remove_edges_before_publish_date on a joined row
EdgeIsCausal(row) == LtKeeps(row["cited_min_date"], row["citing_min_date"])

RemoveEdgesBeforePublishDate(edges, info) ==
    LET info_min == RenameCol(SelectCols(info, {"id", "_min_date"}), "id", "pid")
        citing == RenameCol(RenameCol(info_min, "pid", "citing_pid"),
                            "_min_date", "citing_min_date")
        cited == RenameCol(RenameCol(info_min, "pid", "cited_pid"),
                           "_min_date", "cited_min_date")
        joined == InnerJoin(InnerJoin(edges, "pub_id", citing, "citing_pid"),
                            "references", cited, "cited_pid")
    IN SelectCols(FilterRows(joined, EdgeIsCausal), {"pub_id", "references"})

\* fill_date, with the two values random.randint returns for this string
FillDate(parts, month, day) ==
    IF Len(parts) = 1 THEN <<parts[1], month, day>>
    ELSE IF Len(parts) = 2 THEN <<parts[1], parts[2], day>>
    ELSE parts

\* clean_date; draws[i] is the <<month, day>> drawn for row i
CleanDate(info, draws) ==
    LET Filled(i) == FillDate(info.rows[i]["publication_date"], draws[i][1], draws[i][2])
        Parsed(i) == Strptime(Filled(i)[1], Filled(i)[2], Filled(i)[3])
        dated == [cols |-> info.cols,
                  rows |-> [i \in DOMAIN info.rows |->
                              [info.rows[i] EXCEPT !["publication_date"] = Parsed(i)]]]
    IN FilterRows(dated, LAMBDA r : r["publication_date"] # Null)

\* ids_to_numeric: "pub.<n>" without its prefix, as an integer
IdsToNumeric(t, column_name) ==
    [cols |-> t.cols,
     rows |-> [i \in DOMAIN t.rows |->
                 [t.rows[i] EXCEPT ![column_name] = t.rows[i][column_name][2]]]]

DefineSourceTarget(edges) ==
    RenameCol(RenameCol(edges, "pub_id", "source"), "references", "target")

----------------------------------------------------------------------------
(* PageRank (run_pagerank.py) *)

NoGraph == [vertices |-> << >>, edges |-> << >>, scores |-> << >>]

\* what process_pagerank returns when the graph is not a DAG
NoneDf == [none |-> TRUE]

\* the values graph_tool's pagerank may give a vertex (floats, in some unit)
ScoreValues == {1, 2}

RECURSIVE FirstSeen(_, _)
FirstSeen(s, acc) ==
    IF s = << >> THEN acc
    ELSE FirstSeen(Tail(s), IF Head(s) \in Range(acc) THEN acc ELSE Append(acc, Head(s)))

\* load_graph: add_edge_list(df.to_numpy(), hashed=True): one edge per row,
\* one vertex per distinct id, in first-seen order
LoadGraph(edges) ==
    LET edge_list == [i \in DOMAIN edges.rows |->
                        <<edges.rows[i]["source"], edges.rows[i]["target"]>>]
    IN [vertices |-> FirstSeen(Flatten(edge_list), << >>),
        edges |-> edge_list,
        scores |-> << >>]

RECURSIVE ReachableIn(_, _, _)
ReachableIn(gr, from, n) ==
    IF n = 0 THEN from
    ELSE LET step == { e[2] : e \in { x \in Range(gr.edges) : x[1] \in from } }
         IN ReachableIn(gr, from \cup step, n - 1)

\* graph_tool.is_DAG: no vertex reaches itself along one or more edges
IsDAG(gr) ==
    \A v \in Range(gr.vertices) :
        LET succ == { e[2] : e \in { x \in Range(gr.edges) : x[1] = v } }
        IN v \notin ReachableIn(gr, succ, Len(gr.vertices))

CountWhere(sq, P(_)) == Len(SelectSeq2(sq, P, << >>))

GetInDegree(gr, v) == CountWhere(gr.edges, LAMBDA e : e[2] = v)
GetOutDegree(gr, v) == CountWhere(gr.edges, LAMBDA e : e[1] = v)

CombineIntoDataframe(gr) ==
    [cols |-> {"id", "page_rank", "in_degree", "out_degree"},
     rows |-> [i \in DOMAIN gr.vertices |->
                 [id |-> gr.vertices[i],
                  page_rank |-> gr.scores[i],
                  in_degree |-> GetInDegree(gr, gr.vertices[i]),
                  out_degree |-> GetOutDegree(gr, gr.vertices[i])]]]

----------------------------------------------------------------------------
(* TimeNormalise (time_normalise.py) *)

AGGREGATIONS == {"year", "quarter", "month", "minimum_valid"}

\* the --aggregation values tried: the four of AGGREGATIONS and one other
AggregationArgs == AGGREGATIONS \cup {"week"}

\* TimeNormalise.__init__, lines 33-34
InitError(agg) == IF agg \notin AGGREGATIONS THEN "ValueError" ELSE "none"

\* float cells: a null, a NaN, or an exact value kept symbolically
FNull == [kind |-> "null"]
FNaN == [kind |-> "nan"]

FilterZeroOutDegree(t) == FilterRows(t, LAMBDA r : r["out_degree"] > 0)

\* dt.strftime('%Y-%m'): the text "YYYY-MM", kept as <<year, month>>
MonthKey(date) == <<YearOf(date), MonthOf(date)>>
\* strftime('%Y') and dt.quarter() joined by '-': "YYYY-Q", kept as <<year, quarter>>
QuarterKey(date) == <<YearOf(date), ((MonthOf(date) - 1) \div 3) + 1>>

CreateMonth(t) == WithColumn(t, "month", LAMBDA r : MonthKey(r["publication_date"]))
CreateQuarter(t) == WithColumn(t, "quarter", LAMBDA r : QuarterKey(r["publication_date"]))

SetMax(S) == CHOOSE x \in S : \A y \in S : y <= x

\* window_size: not computed yet, the None that .item() gives on an empty
\* frame, or an integer
NoWindow == [kind |-> "unset"]
NoneWindow == [kind |-> "None"]
IntWindow(n) == [kind |-> "int", n |-> n]

\* a window sized by the number of periods instead of the busiest period's count
FindMaxPeriodGroups(t, agg) ==
    LET keys == { t.rows[i][agg] : i \in DOMAIN t.rows }
    IN IF keys = {} THEN NoneWindow ELSE IntWindow(Cardinality(keys))

\* find_max_period: group_by(aggregation).len().max(), on a frame that has
\* the aggregation column
FindMaxPeriod(t, agg) ==
    LET keys == { t.rows[i][agg] : i \in DOMAIN t.rows }
        lens == { CountWhere(t.rows, LAMBDA r : r[agg] = k) : k \in keys }
    IN IF lens = {} THEN NoneWindow ELSE IntWindow(SetMax(lens))

\* DataFrame.sort(date) keeps no order among equal dates: every ordering of
\* the rows by ascending date
RECURSIVE SortsOf(_, _, _)
SortsOf(rows, idx, col) ==
    IF idx = {} THEN { << >> }
    ELSE UNION { { <<rows[i]>> \o rest : rest \in SortsOf(rows, idx \ {i}, col) } :
                 i \in { k \in idx : \A j \in idx : rows[k][col] <= rows[j][col] } }

SortFrames(t, col) ==
    { [cols |-> t.cols, rows |-> r] : r \in SortsOf(t.rows, DOMAIN t.rows, col) }

\* the sum of page_rank ^ power over rows lo..hi
RECURSIVE SumOver(_, _, _, _)
SumOver(rows, lo, hi, power) ==
    IF lo > hi THEN 0
    ELSE (IF power = 2 THEN rows[lo]["page_rank"] * rows[lo]["page_rank"]
          ELSE rows[lo]["page_rank"])
         + SumOver(rows, lo + 1, hi, power)

\* a trailing window: every position looks back over the w - 1 before it
WindowOffsetTrailing(w) == w - 1

\* rows of the window before position i with center=True: floor(w/2)
WindowOffset(w) == w \div 2

\* the centred window of polars at position i: floor(w/2) rows before i,
\* row i, and ceil(w/2) - 1 rows after it
WindowLo(i, w) == i - WindowOffset(w)
WindowHi(i, w) == WindowLo(i, w) + w - 1
\* the window is complete (min_periods is the window size)
WindowFull(i, w, len) == WindowLo(i, w) >= 1 /\ WindowHi(i, w) <= len

WindowSum(rows, i, w) ==
    SumOver(rows, WindowLo(i, w), WindowHi(i, w), 1)
WindowSumSq(rows, i, w) ==
    SumOver(rows, WindowLo(i, w), WindowHi(i, w), 2)
\* w * (w - 1) times the sample variance of the window
WindowVarNum(rows, i, w) ==
    w * WindowSumSq(rows, i, w) - WindowSum(rows, i, w) * WindowSum(rows, i, w)

\* rolling_mean(w, center=True) at i: sum / w
RollingMean(rows, i, w) ==
    IF WindowFull(i, w, Len(rows))
    THEN [kind |-> "frac", num |-> WindowSum(rows, i, w), den |-> w]
    ELSE FNull

\* rolling_std(w, center=True) at i: sqrt(num / den); one sample has no
\* sample deviation
RollingStd(rows, i, w) ==
    IF ~WindowFull(i, w, Len(rows)) THEN FNull
    ELSE IF w = 1 THEN FNaN
    ELSE [kind |-> "sqrt", num |-> WindowVarNum(rows, i, w), den |-> w * (w - 1)]

\* a z-score whose NaN is left in place: 0 / 0 stays NaN and is no null
ZScoreKeepsNaN(rows, i, w) ==
    IF ~WindowFull(i, w, Len(rows)) THEN FNull
    ELSE IF w = 1 \/ WindowVarNum(rows, i, w) = 0 THEN FNaN
    ELSE [kind |-> "z",
          a |-> w * rows[i]["page_rank"] - WindowSum(rows, i, w),
          b |-> WindowVarNum(rows, i, w)]

\* z_scores.fill_nan(None) at i: deviation / rolling_std; 0 / 0 is NaN and
\* becomes null.  The value is a / sqrt(b) times sqrt((w - 1) / w).
ZScore(rows, i, w) ==
    IF RollingMean(rows, i, w) = FNull \/ RollingStd(rows, i, w) = FNull THEN FNull
    ELSE IF RollingStd(rows, i, w) = FNaN THEN FNull
    ELSE IF WindowVarNum(rows, i, w) = 0 THEN FNull
    ELSE [kind |-> "z",
          a |-> w * rows[i]["page_rank"] - WindowSum(rows, i, w),
          b |-> WindowVarNum(rows, i, w)]

\* compute_rescaled_scores after its sort: t is self.df sorted by date
ComputeRescaledScores(t, w) ==
    LET cs == t.cols \cup {"rescaled_pr", "rescaled_mean_pr", "rescaled_std_pr"}
        full == [cols |-> cs,
                 rows |-> [i \in DOMAIN t.rows |->
                    [c \in cs |->
                        IF c = "rescaled_pr" THEN ZScore(t.rows, i, w)
                        ELSE IF c = "rescaled_mean_pr" THEN RollingMean(t.rows, i, w)
                        ELSE IF c = "rescaled_std_pr" THEN RollingStd(t.rows, i, w)
                        ELSE t.rows[i][c]]]]
    IN FilterRows(full, LAMBDA r : r["rescaled_pr"] # FNull)

\* the order of two z-scores of one frame: z = a / sqrt(b), b > 0
Sq(a) == IF a < 0 THEN 0 - a * a ELSE a * a
ZLeq(z1, z2) == Sq(z1.a) * z2.b <= Sq(z2.a) * z1.b

\* a scaler fitted to each month's records on their own
ComputeZeroOneScoresPerMonth(t) ==
    LET zs(r) == { t.rows[i]["rescaled_pr"] : i \in
                     { k \in DOMAIN t.rows :
                         MonthKey(t.rows[k]["publication_date"])
                           = MonthKey(r["publication_date"]) } }
    IN WithColumn(t, "nn_rescaled_pr",
                  LAMBDA r : [kind |-> "minmax", z |-> r["rescaled_pr"],
                              lo |-> CHOOSE z \in zs(r) : \A y \in zs(r) : ZLeq(z, y),
                              hi |-> CHOOSE z \in zs(r) : \A y \in zs(r) : ZLeq(y, z)])

\* compute_zero_one_scores on a frame with rows: MinMaxScaler, then + 1e-13.
\* The cell keeps z and the fitted minimum and maximum: its value is
\* (z - lo) / (hi - lo) + 1e-13, and 0 + 1e-13 when hi = lo.
ComputeZeroOneScores(t) ==
    LET zs == { t.rows[i]["rescaled_pr"] : i \in DOMAIN t.rows }
        lo == CHOOSE z \in zs : \A y \in zs : ZLeq(z, y)
        hi == CHOOSE z \in zs : \A y \in zs : ZLeq(y, z)
    IN WithColumn(t, "nn_rescaled_pr",
                  LAMBDA r : [kind |-> "minmax", z |-> r["rescaled_pr"],
                              lo |-> lo, hi |-> hi])

\* The value of an nn_rescaled_pr cell c is (c.z - c.lo) / (c.hi - c.lo) + 1e-13.
\* it is above 0: the scaled part is not negative
NnPositive(c) == ZLeq(c.lo, c.z)
\* it is above 1: the scaled part of the fitted maximum is 1.0, and 1e-13 is
\* added to it
NnAboveOne(c) == ~ZLeq(c.hi, c.lo) /\ ZLeq(c.hi, c.z)
\* where the scaled part lies: 0 at the fitted minimum, 2 at the fitted
\* maximum, 1 in between
NnLevel(c) ==
    IF ZLeq(c.z, c.lo) THEN 0
    ELSE IF ZLeq(c.hi, c.z) THEN 2
    ELSE 1
\* the order of two cells: under one fit that of the scaled parts, which is
\* that of z; under two fits that of their levels
NnLeq(c1, c2) ==
    IF c1.lo = c2.lo /\ c1.hi = c2.hi THEN ZLeq(c1.z, c2.z)
    ELSE NnLevel(c1) <= NnLevel(c2)

\* clean_df of pagerank_pipeline.py
CleanDf(t) ==
    FilterRows(SelectCols(t, {"id", "page_rank", "in_degree", "out_degree",
                               "publication_date", "rescaled_pr", "nn_rescaled_pr"}),
               LAMBDA r : r["rescaled_pr"] # FNull)

----------------------------------------------------------------------------
(* The stored data *)

InfoRowValues == { [id |-> RawId(n), publication_date |-> d] : n \in Ids, d \in RawDates }
EdgeRowValues == { [pub_id |-> RawId(a), references |-> RawId(b)] : a \in Ids, b \in Ids }

\* the rows of a set in one fixed order
RECURSIVE SetToSeq(_)
SetToSeq(S) == IF S = {} THEN << >>
               ELSE LET x == CHOOSE x \in S : TRUE IN <<x>> \o SetToSeq(S \ {x})

SubsetsUpTo(S, n) == { T \in SUBSET S : Cardinality(T) <= n }

InfoFrames ==
    { [cols |-> {"id", "publication_date"}, rows |-> SetToSeq(T)] :
        T \in SubsetsUpTo(InfoRowValues, MaxInfoRows) }
EdgeFrames ==
    { [cols |-> {"pub_id", "references"}, rows |-> SetToSeq(T)] :
        T \in SubsetsUpTo(EdgeRowValues, MaxEdgeRows) }

NoFrame == [cols |-> {}, rows |-> << >>]

----------------------------------------------------------------------------
(* AsyncS3DataLoader (data_loader.py) *)

\* the k-th path wr.s3.list_objects gave
Path(k) == <<"s3", k>>
PathLists == { [k \in 1..n |-> Path(k)] : n \in 0..MaxPaths }

\* what read_from_s3 reads from an object that exists: its table
TableOf(path) == [cols |-> {"path"}, rows |-> <<[path |-> path]>>]

\* pl.concat of a non-empty list of frames
Concat(frames) ==
    [cols |-> frames[1].cols,
     rows |-> Flatten([k \in DOMAIN frames |-> frames[k].rows])]

\* a read_from_s3 task: not created, created by gather, awaiting
\* get_object, or done with its result
IdleTask == [st |-> "idle", out |-> NoneDf]

\* read_from_s3: the table, or None on NoSuchKey
ReadFromS3(path, absent) == IF path \in absent THEN NoneDf ELSE TableOf(path)

\* path_list[i : i + chunks], as positions of path_list
ChunkList(start, size, paths) ==
    { k \in DOMAIN paths : start < k /\ k <= start + size }

\* the loader is not in use
LoaderIdle ==
    /\ path_list = << >>
    /\ chunks = 1
    /\ missing = {}
    /\ chunk_start = 0
    /\ tasks = << >>
    /\ gets = << >>
    /\ all_dataframes = << >>
    /\ loaded = NoFrame

----------------------------------------------------------------------------
(* The run *)

config == <<time_normalise, aggregation, filter_out_degree>>

\* The frames TimeNormalise is given on its own: every frame of up to
\* MaxNormRows rows (in one order per bag of rows: the sort of
\* compute_rescaled_scores makes the order given immaterial), and long frames
\* of LongLen rows on distinct days, LongPerMonth of them a month, given
\* latest first.
NormDates == {20200110, 20200220, 20200405}
NormRowValues == { [publication_date |-> d, page_rank |-> p, out_degree |-> o] :
                     d \in NormDates, p \in ScoreValues, o \in {0, 1} }
RowCode(r) == r["publication_date"] * 100 + r["page_rank"] * 10 + r["out_degree"]

WithIds(rows) ==
    [cols |-> {"id", "publication_date", "page_rank", "out_degree"},
     rows |-> [i \in DOMAIN rows |->
                 [id |-> i, publication_date |-> rows[i]["publication_date"],
                  page_rank |-> rows[i]["page_rank"],
                  out_degree |-> rows[i]["out_degree"]]]]

ShortFrames ==
    { WithIds(rows) : rows \in
        { r \in UNION { [1..n -> NormRowValues] : n \in 0..MaxNormRows } :
            \A i \in DOMAIN r : i = 1 \/ RowCode(r[i - 1]) >= RowCode(r[i]) } }

LongPeriods == {1, 2, 3, 4}
LongRow(k, p) ==
    [id |-> k,
     publication_date |-> MkDate(2021, 1 + ((k - 1) \div LongPerMonth),
                                 1 + ((k - 1) % LongPerMonth)),
     page_rank |-> 1 + (((k - 1) \div p) % 2),
     out_degree |-> 1]
LongFrames ==
    { [cols |-> {"id", "publication_date", "page_rank", "out_degree"},
       rows |-> [j \in 1..LongLen |-> LongRow(LongLen + 1 - j, p)]] : p \in LongPeriods }

NormFrames == ShortFrames \cup LongFrames

NormInitState ==
    /\ caller = "normaliser"
    /\ pc = "norm_init"
    /\ df \in NormFrames
    /\ norm_input = df
    /\ aggregation \in AggregationArgs
    /\ filter_out_degree \in BOOLEAN
    /\ time_normalise = TRUE
    /\ s3_info = NoFrame
    /\ s3_edges = NoFrame
    /\ date_cutoff = Null
    /\ info_df = NoFrame
    /\ local_files = {}
    /\ g = NoGraph
    /\ solver_calls = 0
    /\ window_size = NoWindow
    /\ saved = {}
    /\ error = "none"
    /\ LoaderIdle

Init ==
    /\ caller \in {"main", "stages"}
    /\ pc = "start"
    /\ s3_info \in InfoFrames
    /\ s3_edges \in EdgeFrames
    /\ date_cutoff \in Cutoffs
    /\ info_df = NoFrame
    /\ df = NoFrame
    /\ local_files = {}
    /\ g = NoGraph
    /\ solver_calls = 0
    /\ time_normalise = FALSE
    /\ aggregation = "quarter"
    /\ filter_out_degree = FALSE
    /\ window_size = NoWindow
    /\ norm_input = NoFrame
    /\ saved = {}
    /\ error = "none"
    /\ LoaderIdle

\* an exception leaves the run: nothing after the raising line executes
Raise(name) ==
    /\ pc' = "raised"
    /\ error' = name

\* main, lines 181-196: the handler is built with the keywords
\* edge_publication_id_target / edge_publication_id_source, which __init__
\* (data_processor.py lines 21-37) does not take: TypeError.
MainConstructHandler ==
    /\ caller = "main" /\ pc = "start"
    /\ Raise("TypeError")
    /\ UNCHANGED <<loader, caller, kept, procvars, df, rankvars, config, window_size, saved>>

\* process_data, lines 250-254
ScanData ==
    /\ caller = "stages" /\ pc = "start"
    /\ info_df' = PubInfoPolarsArgs(s3_info)
    /\ df' = GraphDataPolarsArgs(s3_edges)
    /\ pc' = "prepare_min_date"
    /\ UNCHANGED <<loader, caller, kept, s3_info, s3_edges, date_cutoff, local_files, rankvars,
                   config, window_size, saved, error>>

\* process_data, line 256
DoPrepareMinDate ==
    /\ pc = "prepare_min_date"
    /\ info_df' = PrepareMinDate(info_df)
    /\ pc' = "filter_date_cutoff"
    /\ UNCHANGED <<loader, caller, kept, s3_info, s3_edges, date_cutoff, df, local_files, rankvars,
                   config, window_size, saved, error>>

\* process_data, lines 257-258
DoFilterDateCutoff ==
    /\ pc = "filter_date_cutoff"
    /\ info_df' = IF date_cutoff # Null THEN FilterDateCutoff(info_df, date_cutoff)
                  ELSE info_df
    /\ pc' = "remove_edges"
    /\ UNCHANGED <<loader, caller, kept, s3_info, s3_edges, date_cutoff, df, local_files, rankvars,
                   config, window_size, saved, error>>

\* pruning on dates completed at random, as clean_date completes them
DoRemoveEdgesOnFilledDates ==
    /\ pc = "remove_edges"
    /\ \E draws \in [DOMAIN info_df.rows -> RandMonths \X RandDays] :
          LET filled == CleanDate(info_df, draws)
              dated == [cols |-> filled.cols,
                        rows |-> [i \in DOMAIN filled.rows |->
                                    [filled.rows[i] EXCEPT
                                        !["_min_date"] = filled.rows[i]["publication_date"]]]]
          IN df' = RemoveEdgesBeforePublishDate(df, dated)
    /\ pc' = "clean_date"
    /\ UNCHANGED <<loader, caller, kept, procvars, rankvars, config, window_size, saved, error>>

\* process_data, line 260
DoRemoveEdges ==
    /\ pc = "remove_edges"
    /\ df' = RemoveEdgesBeforePublishDate(df, info_df)
    /\ pc' = "clean_date"
    /\ UNCHANGED <<loader, caller, kept, procvars, rankvars, config, window_size, saved, error>>

\* process_data, line 262
DoCleanDate ==
    /\ pc = "clean_date"
    /\ \E draws \in [DOMAIN info_df.rows -> RandMonths \X RandDays] :
           info_df' = CleanDate(info_df, draws)
    /\ pc' = "collect"
    /\ UNCHANGED <<loader, caller, kept, s3_info, s3_edges, date_cutoff, df, local_files, rankvars,
                   config, window_size, saved, error>>

\* what process_data returns (lines 264-277)
ReturnedEdges(edges) ==
    DefineSourceTarget(IdsToNumeric(IdsToNumeric(edges, "references"), "pub_id"))
ReturnedInfo(info) == IdsToNumeric(info, "id")

\* process_data, lines 264-284
CollectAndReturn ==
    /\ pc = "collect"
    /\ df' = ReturnedEdges(df)
    /\ info_df' = ReturnedInfo(info_df)
    /\ \E save_locally \in BOOLEAN :
          local_files' = IF save_locally
                         THEN {[path |-> "processed_edge_data", table |-> ReturnedEdges(df)],
                               [path |-> "processed_info_data", table |-> ReturnedInfo(info_df)]}
                         ELSE {}
    /\ pc' = "returned"
    /\ UNCHANGED <<loader, caller, kept, s3_info, s3_edges, date_cutoff, rankvars, config,
                   window_size, saved, error>>

\* process_pagerank, line 139
DoLoadGraph ==
    /\ pc = "returned"
    /\ g' = LoadGraph(df)
    /\ pc' = "is_DAG"
    /\ UNCHANGED <<loader, caller, kept, procvars, df, solver_calls, config, window_size, saved, error>>

\* a ranking that skips the acyclicity test
GraphAcceptedAlways(gr) == TRUE

\* whether process_pagerank goes on to the solver (line 140)
GraphAccepted(gr) == IsDAG(gr)

\* process_pagerank, lines 140 and 144-146
DoCheckDAG ==
    /\ pc = "is_DAG"
    /\ IF GraphAccepted(g)
       THEN /\ pc' = "run_pagerank"
            /\ df' = df
       ELSE /\ pc' = "join"
            /\ df' = NoneDf
    /\ UNCHANGED <<loader, caller, kept, procvars, rankvars, config, window_size, saved, error>>

\* process_pagerank, line 141: graph_tool's pagerank gives every vertex a score
DoRunPagerank ==
    /\ pc = "run_pagerank"
    /\ \E sc \in [DOMAIN g.vertices -> ScoreValues] : g' = [g EXCEPT !.scores = sc]
    /\ solver_calls' = solver_calls + 1
    /\ pc' = "combine"
    /\ UNCHANGED <<loader, caller, kept, procvars, df, config, window_size, saved, error>>

\* process_pagerank, line 143
DoCombine ==
    /\ pc = "combine"
    /\ df' = CombineIntoDataframe(g)
    /\ pc' = "join"
    /\ UNCHANGED <<loader, caller, kept, procvars, rankvars, config, window_size, saved, error>>

\* main, lines 205-206
JoinWithInfo(scores, info) ==
    IF scores = NoneDf THEN scores ELSE InnerJoin(scores, "id", info, "id")

\* main, lines 205-208
DoJoin ==
    /\ pc = "join"
    /\ df' = JoinWithInfo(df, info_df)
    /\ \E tn \in BOOLEAN :
          /\ time_normalise' = tn
          /\ pc' = IF tn THEN "normalise" ELSE "save_non_norm"
    /\ UNCHANGED <<loader, caller, kept, procvars, rankvars, aggregation, filter_out_degree,
                   window_size, saved, error>>

\* save_to_s3: df.to_pandas() of None is an AttributeError, and awswrangler
\* refuses an empty frame (EmptyDataFrame)
SaveError(t) ==
    IF t = NoneDf THEN "AttributeError"
    ELSE IF t.rows = << >> THEN "EmptyDataFrame"
    ELSE "none"

\* main, line 222
DoSaveNonNorm ==
    /\ pc = "save_non_norm"
    /\ IF SaveError(df) # "none"
       THEN /\ Raise(SaveError(df))
            /\ saved' = saved
       ELSE /\ saved' = saved \cup {[path |-> "pr_non_norm", table |-> df]}
            /\ pc' = "done"
            /\ error' = error
    /\ UNCHANGED <<loader, caller, kept, procvars, df, rankvars, config, window_size>>

\* The state of one process_normalisation call: self.df, window_size and the
\* exception raised so far.  Each step leaves a failed call as it is.
NormStart(t) == [df |-> t, window |-> NoWindow, error |-> "none"]

\* process_normalisation, lines 148-149 (filter of None: AttributeError)
StepFilter(o, fod) ==
    IF o.error # "none" \/ ~fod THEN o
    ELSE IF o.df = NoneDf THEN [o EXCEPT !.error = "AttributeError"]
    ELSE [o EXCEPT !.df = FilterZeroOutDegree(o.df)]

\* process_normalisation, lines 150-153
StepCreateKey(o, agg) ==
    IF o.error # "none" \/ agg \notin {"month", "quarter"} THEN o
    ELSE IF o.df = NoneDf THEN [o EXCEPT !.error = "AttributeError"]
    ELSE [o EXCEPT !.df = IF agg = "month" THEN CreateMonth(o.df) ELSE CreateQuarter(o.df)]

\* process_normalisation, line 155: group_by needs the aggregation column
StepFindMaxPeriod(o, agg) ==
    IF o.error # "none" THEN o
    ELSE IF o.df = NoneDf THEN [o EXCEPT !.error = "AttributeError"]
    ELSE IF agg \notin o.df.cols THEN [o EXCEPT !.error = "ColumnNotFoundError"]
    ELSE [o EXCEPT !.window = FindMaxPeriod(o.df, agg)]

\* process_normalisation, line 157: rolling_mean(None) is a TypeError; the
\* outcomes are one per ordering the sort may give
StepRescale(o) ==
    IF o.error # "none" THEN {o}
    ELSE IF o.window = NoneWindow THEN {[o EXCEPT !.error = "TypeError"]}
    ELSE { [o EXCEPT !.df = ComputeRescaledScores(sorted, o.window.n)] :
             sorted \in SortFrames(o.df, "publication_date") }

\* process_normalisation, lines 158-159: MinMaxScaler refuses an array
\* without samples (ValueError)
StepZeroOne(o) ==
    IF o.error # "none" THEN o
    ELSE IF o.df.rows = << >> THEN [o EXCEPT !.error = "ValueError"]
    ELSE [o EXCEPT !.df = ComputeZeroOneScores(o.df)]

\* process_normalisation as a whole: its possible outcomes
ProcessNormalisation(t, agg, fod) ==
    { StepZeroOne(o) :
        o \in StepRescale(StepFindMaxPeriod(StepCreateKey(StepFilter(NormStart(t), fod),
                                                          agg), agg)) }

\* main, lines 209-217
DoNormalise ==
    /\ pc = "normalise"
    /\ \E agg \in AggregationArgs, fod \in BOOLEAN :
          /\ aggregation' = agg
          /\ filter_out_degree' = fod
          /\ norm_input' = df
          /\ IF InitError(agg) # "none"
             THEN /\ Raise(InitError(agg))
                  /\ UNCHANGED <<df, window_size>>
             ELSE \E o \in ProcessNormalisation(df, agg, fod) :
                     /\ df' = o.df
                     /\ window_size' = o.window
                     /\ IF o.error # "none" THEN Raise(o.error)
                        ELSE pc' = "save_full" /\ error' = error
    /\ UNCHANGED <<loader, caller, procvars, rankvars, time_normalise, saved>>

\* TimeNormalise(df, ..., aggregation, ..., filter_out_degree)
NormInit ==
    /\ pc = "norm_init"
    /\ IF InitError(aggregation) # "none"
       THEN Raise(InitError(aggregation))
       ELSE pc' = "norm_filter" /\ error' = error
    /\ UNCHANGED <<loader, caller, kept, procvars, df, rankvars, config, window_size, saved>>

\* one step of process_normalisation on the state of the call
NormStep(o, next) ==
    /\ df' = o.df
    /\ window_size' = o.window
    /\ IF o.error # "none" THEN Raise(o.error)
       ELSE pc' = next /\ error' = error
    /\ UNCHANGED <<loader, caller, kept, procvars, rankvars, config, saved>>

NormNow == [df |-> df, window |-> window_size, error |-> "none"]

NormFilter ==
    /\ pc = "norm_filter"
    /\ NormStep(StepFilter(NormNow, filter_out_degree), "norm_key")

NormCreateKey ==
    /\ pc = "norm_key"
    /\ NormStep(StepCreateKey(NormNow, aggregation), "norm_window")

NormFindMaxPeriod ==
    /\ pc = "norm_window"
    /\ NormStep(StepFindMaxPeriod(NormNow, aggregation), "norm_rescale")

NormRescale ==
    /\ pc = "norm_rescale"
    /\ \E o \in StepRescale(NormNow) : NormStep(o, "norm_zero_one")

NormZeroOne ==
    /\ pc = "norm_zero_one"
    /\ NormStep(StepZeroOne(NormNow), "norm_returned")

\* main, line 218
DoSaveFull ==
    /\ pc = "save_full"
    /\ IF SaveError(df) # "none"
       THEN /\ Raise(SaveError(df))
            /\ saved' = saved
       ELSE /\ saved' = saved \cup {[path |-> "pr_norm_full", table |-> df]}
            /\ pc' = "save_clean"
            /\ error' = error
    /\ UNCHANGED <<loader, caller, kept, procvars, df, rankvars, config, window_size>>

\* main, lines 219-220
DoSaveClean ==
    /\ pc = "save_clean"
    /\ IF SaveError(CleanDf(df)) # "none"
       THEN /\ Raise(SaveError(CleanDf(df)))
            /\ saved' = saved
       ELSE /\ saved' = saved \cup {[path |-> "pr_norm_clean", table |-> CleanDf(df)]}
            /\ pc' = "done"
            /\ error' = error
    /\ UNCHANGED <<loader, caller, kept, procvars, df, rankvars, config, window_size>>

Next ==
    \/ MainConstructHandler
    \/ ScanData
    \/ DoPrepareMinDate
    \/ DoFilterDateCutoff
    \/ DoRemoveEdges
    \/ DoCleanDate
    \/ CollectAndReturn
    \/ DoLoadGraph
    \/ DoCheckDAG
    \/ DoRunPagerank
    \/ DoCombine
    \/ DoJoin
    \/ DoSaveNonNorm
    \/ DoNormalise
    \/ DoSaveFull
    \/ DoSaveClean

Spec == Init /\ [][Next]_vars

\* TimeNormalise on its own
NormNext ==
    \/ NormInit
    \/ NormFilter
    \/ NormCreateKey
    \/ NormFindMaxPeriod
    \/ NormRescale
    \/ NormZeroOne

SpecNorm == NormInitState /\ [][NormNext]_vars

----------------------------------------------------------------------------
(* AsyncS3DataLoader.async_chunk_run on its own *)

pipeline == <<s3_info, s3_edges, date_cutoff, info_df, df, local_files, g, solver_calls,
              time_normalise, aggregation, filter_out_degree, window_size, norm_input,
              saved>>

LoadInitState ==
    /\ caller = "loader"
    /\ pc = "loop"
    /\ path_list \in PathLists
    /\ chunks \in 1..MaxChunks
    /\ missing \in SUBSET Range(path_list)
    /\ chunk_start = 0
    /\ tasks = [k \in DOMAIN path_list |-> IdleTask]
    /\ gets = [k \in DOMAIN path_list |-> 0]
    /\ all_dataframes = << >>
    /\ loaded = NoFrame
    /\ s3_info = NoFrame
    /\ s3_edges = NoFrame
    /\ date_cutoff = Null
    /\ info_df = NoFrame
    /\ df = NoFrame
    /\ local_files = {}
    /\ g = NoGraph
    /\ solver_calls = 0
    /\ time_normalise = FALSE
    /\ aggregation = "quarter"
    /\ filter_out_degree = FALSE
    /\ window_size = NoWindow
    /\ norm_input = NoFrame
    /\ saved = {}
    /\ error = "none"

\* async_chunk_run, lines 102-107, and process_chunks, lines 87-91: the next
\* chunk is sliced and gather creates one task per path of it
ChunkBegin ==
    /\ pc = "loop"
    /\ chunk_start < Len(path_list)
    /\ tasks' = [k \in DOMAIN path_list |->
                   IF k \in ChunkList(chunk_start, chunks, path_list)
                   THEN [st |-> "created", out |-> NoneDf] ELSE tasks[k]]
    /\ pc' = "gather"
    /\ UNCHANGED <<caller, pipeline, error, path_list, chunks, missing, chunk_start, gets,
                   all_dataframes, loaded>>

\* read_from_s3, line 54: a task calls get_object and waits
FetchStart(k) ==
    /\ pc = "gather"
    /\ tasks[k].st = "created"
    /\ tasks' = [tasks EXCEPT ![k].st = "in_flight"]
    /\ gets' = [gets EXCEPT ![k] = @ + 1]
    /\ UNCHANGED <<caller, pc, pipeline, error, path_list, chunks, missing, chunk_start,
                   all_dataframes, loaded>>

\* read_from_s3, lines 54-75: the answer arrives, the task returns
FetchDone(k) ==
    /\ pc = "gather"
    /\ tasks[k].st = "in_flight"
    /\ tasks' = [tasks EXCEPT ![k] = [st |-> "done",
                                      out |-> ReadFromS3(path_list[k], missing)]]
    /\ UNCHANGED <<caller, pc, pipeline, error, path_list, chunks, missing, chunk_start,
                   gets, all_dataframes, loaded>>

\* a gather that returns without waiting for its tasks
ChunkCompleteAtOnce(start) == TRUE

\* asyncio.gather returns when every task of the chunk is done
ChunkComplete(start) ==
    \A k \in ChunkList(start, chunks, path_list) : tasks[k].st = "done"

\* process_chunks, lines 91-92, and async_chunk_run, lines 108-110: the
\* results in task order without the None ones, concatenated if there are any
GatherDone ==
    /\ pc = "gather"
    /\ ChunkComplete(chunk_start)
    /\ LET results == [k \in 1..Len(path_list) |->
                         IF k \in ChunkList(chunk_start, chunks, path_list)
                            /\ tasks[k].st = "done"
                         THEN tasks[k].out ELSE NoneDf]
           chunk_dataframes == SelectSeq(results, LAMBDA t : t # NoneDf)
       IN all_dataframes' = IF chunk_dataframes # << >>
                            THEN Append(all_dataframes, Concat(chunk_dataframes))
                            ELSE all_dataframes
    /\ chunk_start' = chunk_start + chunks
    /\ pc' = "loop"
    /\ UNCHANGED <<caller, pipeline, error, path_list, chunks, missing, tasks, gets, loaded>>

\* async_chunk_run, line 111: pl.concat of an empty list is a ValueError
LoaderReturn ==
    /\ pc = "loop"
    /\ chunk_start >= Len(path_list)
    /\ IF all_dataframes = << >>
       THEN Raise("ValueError") /\ loaded' = loaded
       ELSE /\ loaded' = Concat(all_dataframes)
            /\ pc' = "load_returned"
            /\ error' = error
    /\ UNCHANGED <<caller, pipeline, path_list, chunks, missing, chunk_start, tasks, gets,
                   all_dataframes>>

LoadNext ==
    \/ ChunkBegin
    \/ \E k \in DOMAIN path_list : FetchStart(k)
    \/ \E k \in DOMAIN path_list : FetchDone(k)
    \/ GatherDone
    \/ LoaderReturn

SpecLoad == LoadInitState /\ [][LoadNext]_vars

----------------------------------------------------------------------------
(* Properties of the edge pruning (process_data) *)

Rows(t) == { t.rows[i] : i \in DOMAIN t.rows }

\* the stored publication rows whose date string resolves to a date
Resolved(r) == MinDateOf(r["publication_date"]) # Null
\* ... and that the configured cutoff lets through
BeforeCutoff(r) ==
    date_cutoff = Null \/ MinDateOf(r["publication_date"]) < date_cutoff

\* C1: after remove_edges_before_publish_date every retained edge has a
\* citing and a cited row in the retained metadata, both with a min date,
\* the cited one strictly earlier; no error is raised by the removal.
C1_RetainedEdgesAreCausal ==
    pc = "clean_date" =>
        /\ error = "none"
        /\ \A e \in Rows(df) :
              \E citing \in Rows(info_df), cited \in Rows(info_df) :
                 /\ citing["id"] = e["pub_id"]
                 /\ cited["id"] = e["references"]
                 /\ citing["_min_date"] # Null
                 /\ cited["_min_date"] # Null
                 /\ cited["_min_date"] < citing["_min_date"]

\* an edge is retained while a stored edge between two different
\* publications of equal min date is removed
C1_Witness ==
    /\ pc = "clean_date"
    /\ df.rows # << >>
    /\ \E e \in Rows(s3_edges) :
          /\ e \notin Rows(df)
          /\ \E a \in Rows(info_df), b \in Rows(info_df) :
                /\ a["id"] = e["pub_id"] /\ b["id"] = e["references"]
                /\ a["id"] # b["id"]
                /\ a["_min_date"] # Null /\ a["_min_date"] = b["_min_date"]

\* the pruned edges as a function of the stored data and the cutoff alone
PrunedPairs(info_rows) ==
    { <<e["pub_id"][2], e["references"][2]>> : e \in
        { x \in Rows(s3_edges) :
            \E citing \in info_rows, cited \in info_rows :
               /\ citing["id"] = x["pub_id"] /\ cited["id"] = x["references"]
               /\ Resolved(citing) /\ Resolved(cited)
               /\ BeforeCutoff(citing) /\ BeforeCutoff(cited)
               /\ MinDateOf(cited["publication_date"])
                    < MinDateOf(citing["publication_date"]) } }

EdgePairs(t) == { <<r["source"], r["target"]>> : r \in Rows(t) }

\* C2: the edges process_data returns are determined by the stored edges,
\* the stored metadata and the cutoff: whatever values the random completion
\* of the dates draws, the same edges survive.
C2_EdgesIndependentOfRandomDates ==
    pc = "returned" => EdgePairs(df) = PrunedPairs(Rows(s3_info))

\* process_data has returned an edge whose cited publication got a display
\* date later than the display date of the citing one
C2_Witness ==
    /\ pc = "returned"
    /\ \E e \in Rows(df) : \E a \in Rows(info_df), b \in Rows(info_df) :
          /\ a["id"] = e["source"] /\ b["id"] = e["target"]
          /\ a["_min_date"] > b["_min_date"]
          /\ a["publication_date"] < b["publication_date"]

----------------------------------------------------------------------------
(* Properties of the run *)

\* C3: when the graph has a directed cycle the solver is not called, no
\* score table exists and no output table is written, with or without time
\* normalisation.
C3_CycleAbortsRanking ==
    ~IsDAG(g) =>
        /\ solver_calls = 0
        /\ g.scores = << >>
        /\ saved = {}
        /\ pc \in {"is_DAG", "join", "normalise", "save_non_norm", "raised"}
        /\ (pc \in {"join", "normalise", "save_non_norm", "raised"} => df = NoneDf)

\* a run over a cyclic graph has ended in the normalisation branch
C3_Witness ==
    /\ ~IsDAG(g)
    /\ pc = "raised"
    /\ time_normalise

\* the graph process_pagerank would build from the stored data
PrunedGraph ==
    LoadGraph(ReturnedEdges(RemoveEdgesBeforePublishDate(
        GraphDataPolarsArgs(s3_edges),
        IF date_cutoff # Null
        THEN FilterDateCutoff(PrepareMinDate(PubInfoPolarsArgs(s3_info)), date_cutoff)
        ELSE PrepareMinDate(PubInfoPolarsArgs(s3_info)))))

Paths(files) == { f["path"] : f \in files }

\* C4: a run of main over stored data whose pruned graph is a non-empty DAG
\* ends having written its output tables: pr_non_norm without time
\* normalisation, pr_norm_full and pr_norm_clean with it.
C4_MainWritesOutputs ==
    (caller = "main" /\ pc \in {"done", "raised"}
        /\ PrunedGraph.edges # << >> /\ IsDAG(PrunedGraph)) =>
        /\ pc = "done"
        /\ Paths(saved) = IF time_normalise THEN {"pr_norm_full", "pr_norm_clean"}
                          ELSE {"pr_non_norm"}

\* C5: the metadata process_data returns, and every table written, carries
\* no min date column.
C5_MinDateNotExposed ==
    /\ pc = "returned" => "_min_date" \notin info_df.cols
    /\ \A f \in saved \cup local_files : "_min_date" \notin f["table"].cols

\* C6: with a cutoff, every metadata row returned has a min date strictly
\* before it and so have the rows of both ends of every returned edge; the
\* cutoff step removes no row whose min date is before the cutoff, and
\* without a cutoff it removes nothing.
C6_CutoffOnMinDate ==
    /\ (pc = "returned" /\ date_cutoff # Null) =>
          /\ \A r \in Rows(info_df) :
                r["_min_date"] # Null /\ r["_min_date"] < date_cutoff
          /\ \A e \in Rows(df) : \E a \in Rows(info_df), b \in Rows(info_df) :
                a["id"] = e["source"] /\ b["id"] = e["target"]
    /\ pc = "remove_edges" =>
          /\ \A r \in Rows(s3_info) :
                (Resolved(r) /\ BeforeCutoff(r)) =>
                    \E k \in Rows(info_df) :
                       /\ k["id"] = r["id"]
                       /\ k["publication_date"] = r["publication_date"]
          /\ date_cutoff = Null => Len(info_df.rows) = Len(s3_info.rows)

\* with a cutoff, a row is returned whose display date is not before the
\* cutoff, an edge is returned, and a stored row was cut
C6_Witness ==
    /\ pc = "returned"
    /\ date_cutoff # Null
    /\ df.rows # << >>
    /\ \E r \in Rows(info_df) : r["publication_date"] >= date_cutoff
    /\ \E r \in Rows(s3_info) : Resolved(r) /\ ~BeforeCutoff(r)

\* ids all of whose stored rows have a date string that resolves to no date
UnresolvedIds ==
    { r["id"] : r \in Rows(s3_info) } \ { r["id"] : r \in { x \in Rows(s3_info) : Resolved(x) } }

\* C7: a publication whose date string resolves to no date is left out: no
\* returned edge ends at it, it has no metadata row, no error is raised, and
\* the edges and metadata returned are those of the stored data without it.
C7_UnresolvedDatesDropped ==
    pc = "returned" =>
        /\ error = "none"
        /\ \A r \in Rows(info_df) :
              r["_min_date"] # Null /\ r["publication_date"] # Null
        /\ \A n \in UnresolvedIds :
              /\ \A r \in Rows(info_df) : r["id"] # n[2]
              /\ \A e \in Rows(df) : e["source"] # n[2] /\ e["target"] # n[2]
        /\ EdgePairs(df) = PrunedPairs({ r \in Rows(s3_info) : Resolved(r) })
        /\ { <<r["id"], r["_min_date"]>> : r \in Rows(info_df) }
             = { <<r["id"][2], MinDateOf(r["publication_date"])>> :
                   r \in { x \in Rows(s3_info) : Resolved(x) /\ BeforeCutoff(x) } }

\* process_data has returned edges and metadata from stored data in which a
\* publication with an unresolvable date is cited by a stored edge
C7_Witness ==
    /\ pc = "returned"
    /\ df.rows # << >>
    /\ \E n \in UnresolvedIds : \E e \in Rows(s3_edges) :
          e["references"] = n \/ e["pub_id"] = n

----------------------------------------------------------------------------
(* Properties of the time normalisation (TimeNormalise on its own) *)

\* the period key of a display date at a granularity
ExpectedKey(agg, date) ==
    IF agg = "year" THEN YearOf(date)
    ELSE IF agg = "quarter" THEN <<YearOf(date), ((MonthOf(date) + 2) \div 3)>>
    ELSE IF agg = "month" THEN <<YearOf(date), MonthOf(date)>>
    ELSE date

\* C8: for each of the four accepted aggregations process_normalisation
\* gives every record the period key of its display date at that
\* granularity and sizes the window from it; none of them fails for want of
\* the key.
C8_AcceptedAggregationsGetKeys ==
    (caller = "normaliser" /\ aggregation \in AGGREGATIONS) =>
        /\ error # "ColumnNotFoundError"
        /\ pc \in {"norm_rescale", "norm_zero_one", "norm_returned"} =>
              /\ aggregation \in df.cols
              /\ \A r \in Rows(df) :
                    r[aggregation] = ExpectedKey(aggregation, r["publication_date"])

\* the records of the frame given that the out_degree filter leaves
KeptByFilter ==
    IF filter_out_degree THEN { r \in Rows(norm_input) : r["out_degree"] # 0 }
    ELSE Rows(norm_input)

SharingKey(k) == Cardinality({ r \in Rows(df) : r[aggregation] = k })

\* C9: the window size is one number, the largest count of records sharing
\* a period key, over the records left by the out_degree filter: with the
\* filter on these are the records of non-zero out_degree, with it off all
\* records.
C9_WindowIsBusiestPeriod ==
    pc = "norm_rescale" =>
        /\ { r["id"] : r \in Rows(df) } = { r["id"] : r \in KeptByFilter }
        /\ Len(df.rows) = Cardinality(KeptByFilter)
        /\ IF df.rows = << >> THEN window_size = NoneWindow
           ELSE /\ window_size.kind = "int"
                /\ \E r \in Rows(df) : SharingKey(r[aggregation]) = window_size.n
                /\ \A r \in Rows(df) : SharingKey(r[aggregation]) <= window_size.n

\* the window was sized with the filter on, and a record of out_degree 0
\* belonged to a period that, counting it, would have been busier than the
\* window
C9_Witness ==
    /\ pc = "norm_rescale"
    /\ filter_out_degree
    /\ window_size.kind = "int"
    /\ \E r \in Rows(norm_input) :
          /\ r["out_degree"] = 0
          /\ Cardinality({ q \in Rows(norm_input) :
                 ExpectedKey(aggregation, q["publication_date"])
                   = ExpectedKey(aggregation, r["publication_date"]) })
               > window_size.n

\* no window of w consecutive records has equal page_rank throughout, in
\* any ordering of the rows by date
NoFlatWindow(t, w) ==
    \A s \in SortFrames(t, "publication_date") :
        \A lo \in 1..(Len(s.rows) - w + 1) :
            \E i \in lo..(lo + w - 1), j \in lo..(lo + w - 1) :
                s.rows[i]["page_rank"] # s.rows[j]["page_rank"]

\* C10: compute_rescaled_scores on L records with a window of W, 2 <= W <= L
\* and no flat window, keeps L - W + 1 records: a run of consecutive records
\* of the date order, in that order, the records dropped being at most W/2
\* at the start and at most W/2 at the end.
C10_BoundaryTrimming ==
    [][ (/\ pc = "norm_rescale" /\ pc' = "norm_zero_one"
         /\ 2 <= window_size.n /\ window_size.n <= Len(df.rows)
         /\ NoFlatWindow(df, window_size.n))
        => LET L == Len(df.rows)
               W == window_size.n
           IN /\ Len(df'.rows) = L - W + 1
              /\ \A i \in DOMAIN df'.rows : \A j \in DOMAIN df'.rows :
                    i < j => df'.rows[i]["publication_date"] <= df'.rows[j]["publication_date"]
              /\ \E s \in SortFrames(df, "publication_date") :
                    \E front \in 0..(W - 1) :
                       /\ 2 * front <= W
                       /\ 2 * (W - 1 - front) <= W
                       /\ \A k \in DOMAIN df'.rows :
                             df'.rows[k]["id"] = s.rows[k + front]["id"]
      ]_vars

\* ten records and a window of four have left seven
C10_Witness ==
    /\ pc = "norm_zero_one"
    /\ Len(norm_input.rows) = 10
    /\ window_size = IntWindow(4)
    /\ Len(df.rows) = 7

\* the centred window of w positions around position i of a sequence
Around(i, w) == (i - (w \div 2))..(i - (w \div 2) + w - 1)
\* it lies within the sequence
Inside(i, w, len) == \A j \in Around(i, w) : 1 <= j /\ j <= len
\* all its page_rank values are equal
Flat(rows, i, w) ==
    \A j \in Around(i, w), k \in Around(i, w) :
        rows[j]["page_rank"] = rows[k]["page_rank"]

\* C11: compute_rescaled_scores does not fail; of the records with a whole
\* window it drops those whose window has equal page_rank values throughout
\* and keeps the others, each with the z-score (page_rank - rolling_mean) /
\* rolling_std and a rolling_std above zero.
C11_FlatWindowsDropped ==
    [][ (pc = "norm_rescale" /\ window_size.kind = "int")
        => /\ pc' = "norm_zero_one"
           /\ error' = "none"
           /\ \E s \in SortFrames(df, "publication_date") :
                 LET W == window_size.n
                     L == Len(s.rows)
                 IN { r["id"] : r \in Rows(df') }
                      = { s.rows[i]["id"] : i \in
                            { k \in 1..L : Inside(k, W, L) /\ ~Flat(s.rows, k, W) } }
           /\ \A r \in Rows(df') :
                 LET z == r["rescaled_pr"]
                     mean == r["rescaled_mean_pr"]
                     std == r["rescaled_std_pr"]
                 IN /\ z.kind = "z" /\ mean.kind = "frac" /\ std.kind = "sqrt"
                    /\ std.num > 0 /\ std.den > 0 /\ mean.den = window_size.n
                    \* z = ((den * x - num) / den) / sqrt(std.num / std.den)
                    /\ z.a = mean.den * r["page_rank"] - mean.num
                    /\ z.b = std.num
      ]_vars

\* records with a whole window were dropped for a flat window while others
\* were kept
C11_Witness ==
    /\ pc = "norm_zero_one"
    /\ window_size.kind = "int"
    /\ window_size.n >= 2
    /\ df.rows # << >>
    /\ Len(df.rows) < Len(norm_input.rows) - window_size.n + 1
    /\ ~filter_out_degree

\* C12: every nn_rescaled_pr that compute_zero_one_scores gives is above 0
\* and not above 1.
C12_RescaledInUnitRange ==
    pc = "norm_returned" =>
        \A r \in Rows(df) :
            NnPositive(r["nn_rescaled_pr"]) /\ ~NnAboveOne(r["nn_rescaled_pr"])

C14_NormalisationAlwaysReturns ==
    (caller = "normaliser" /\ aggregation \in {"month", "quarter"}) =>
        /\ pc # "raised"
        /\ error = "none"

----------------------------------------------------------------------------
(* Properties of the score table *)

\* the ids at the ends of the edges of the graph
EdgeEndIds == UNION { { g.edges[i][1], g.edges[i][2] } : i \in DOMAIN g.edges }

\* no id has two rows
OneRowPerId(t) ==
    \A i \in DOMAIN t.rows, j \in DOMAIN t.rows :
        t.rows[i]["id"] = t.rows[j]["id"] => i = j

\* C15: the score table joined with the metadata has one row for each id at
\* an end of a retained edge, none for another id and none twice; the
\* rescaled table has no id twice.
C15_OneRowPerNode ==
    /\ (pc \in {"normalise", "save_non_norm"} /\ df # NoneDf) =>
          /\ { r["id"] : r \in Rows(df) } = EdgeEndIds
          /\ OneRowPerId(df)
    /\ pc \in {"save_full", "save_clean"} => OneRowPerId(df)

----------------------------------------------------------------------------
(* Properties of the loader *)

\* the paths of path_list whose object exists, in path_list order
ExistingPaths == SelectSeq(path_list, LAMBDA q : q \notin missing)

\* C16: async_chunk_run does not fail for missing objects; it returns the
\* tables of the paths whose object exists, in path_list order, having
\* fetched every path once, whatever the order in which the fetches end.
C16_LoadSkipsMissing ==
    (caller = "loader" /\ path_list # << >>) =>
        /\ pc # "raised"
        /\ pc = "load_returned" =>
              /\ loaded.rows = [k \in DOMAIN ExistingPaths |-> [path |-> ExistingPaths[k]]]
              /\ \A k \in DOMAIN path_list : gets[k] = 1

\* the positions whose fetch is under way
InFlight == { k \in DOMAIN tasks : tasks[k].st = "in_flight" }
\* the chunk of a position: consecutive runs of `chunks` positions
ChunkOf(k) == (k - 1) \div chunks

====
